---- MODULE Spec2Model ----
(***************************************************************************)
(* The StreetEasy scraper of src/main.py: scrape_streeteasy (pagination,   *)
(* card parsing, deduplication, detail enrichment) and the helpers it      *)
(* calls, and the handler of the Search button, search_listings.  The      *)
(* external collaborators (ScrapingBee, st.error, st.progress, time.sleep) *)
(* appear as the log of the calls made to them.                            *)
(***************************************************************************)
EXTENDS Integers, Sequences, FiniteSets, TLC

(***************************************************************************)
(* Bounds of the model.                                                    *)
(***************************************************************************)
MaxPages == 3        \* largest max_pages argument explored
MaxCards == 3        \* card elements the site serves over one run
MaxDedupLen == 3     \* longest accumulator given to the dedup step alone

(***************************************************************************)
(* Python values.  An optional value is <<>> (None) or <<v>>.              *)
(***************************************************************************)
None == <<>>

Some(v) == <<v>>

\* bool(x) of an optional string: None and '' are falsy
TruthyStr(x) == x # None /\ x[1] # ""

\* bool(x) of an optional integer: None and 0 are falsy
TruthyNum(x) == x # None /\ x[1] # 0

Urls == {"u1", "u2"}

Addresses == {"a1", "a2"}

OptUrl == {None} \cup {Some(u) : u \in Urls}

\* get_text(strip=True) of an address element may be the empty string
OptAddress == {None, Some("")} \cup {Some(a) : a \in Addresses}

(***************************************************************************)
(* Card Parser: one card element of a results page.  A card is what the    *)
(* extraction of lines 810-883 finds in it, or raises while being parsed.  *)
(* For sqft, taxes and fees it is what the pattern cascade matches on the  *)
(* card text, in rule order: for every rule that matches, the number       *)
(* extract_number makes of its capture group (None without a digit).       *)
(***************************************************************************)
Card(raises, url, address, sqft) ==
    [raises |-> raises, url |-> url, address |-> address, neighborhood |-> None,
     price |-> None, sqft |-> sqft, taxes |-> <<>>, fees |-> <<>>]

\* FirstMatch without the breaks of lines 861, 873 and 883: every rule is
\* tried and the last one that matches gives the value
LastMatch(matches) == IF matches = <<>> THEN None ELSE matches[Len(matches)]

\* lines 857-861, 869-873 and 880-883: the first rule that matches gives the
\* value and ends the cascade
FirstMatch(matches) == IF matches = <<>> THEN None ELSE Head(matches)

\* the listing dict built from one card (lines 798-883)
NewListing(card) ==
    [address |-> card.address, neighborhood |-> card.neighborhood,
     price |-> card.price, sqft |-> FirstMatch(card.sqft),
     taxes |-> FirstMatch(card.taxes), fees |-> FirstMatch(card.fees),
     listing_date |-> None, days_on_market |-> None, url |-> card.url]

\* Retained without the check of line 885: every card that parses is kept
RetainedAlways(listing) == TRUE

\* line 885: if listing['url'] or listing['address']
Retained(listing) == TruthyStr(listing.url) \/ TruthyStr(listing.address)

\* ParseCards without the try of line 797: a card that raises ends the loop
\* over the cards, those after it are not parsed
RECURSIVE ParseCardsAborting(_)
ParseCardsAborting(cards) ==
    IF cards = <<>> THEN <<>>
    ELSE LET card == Head(cards)
         IN  IF card.raises THEN <<>>
             ELSE IF Retained(NewListing(card))
             THEN <<NewListing(card)>> \o ParseCardsAborting(Tail(cards))
             ELSE ParseCardsAborting(Tail(cards))

\* lines 795-889: page_listings of one page, cards in document order
RECURSIVE ParseCards(_)
ParseCards(cards) ==
    IF cards = <<>> THEN <<>>
    ELSE LET card == Head(cards)
             rest == ParseCards(Tail(cards))
         IN  IF card.raises THEN rest
             ELSE IF Retained(NewListing(card)) THEN <<NewListing(card)>> \o rest
             ELSE rest

(***************************************************************************)
(* Deduplication (lines 909-924).                                          *)
(***************************************************************************)
\* DedupFrom without seen_urls.add (line 917): a url is never remembered
RECURSIVE DedupFromForgetful(_, _, _)
DedupFromForgetful(rest, seen_urls, seen_addresses) ==
    IF rest = <<>> THEN <<>>
    ELSE LET listing == Head(rest)
         IN  IF TruthyStr(listing.url)
             THEN <<listing>> \o DedupFromForgetful(Tail(rest), seen_urls, seen_addresses)
             ELSE IF TruthyStr(listing.address)
             THEN IF listing.address \notin seen_addresses
                  THEN <<listing>> \o DedupFromForgetful(Tail(rest), seen_urls,
                                               seen_addresses \cup {listing.address})
                  ELSE DedupFromForgetful(Tail(rest), seen_urls, seen_addresses)
             ELSE DedupFromForgetful(Tail(rest), seen_urls, seen_addresses)

\* DedupFrom removing from the list it iterates: the listing after a dropped
\* duplicate is stepped over, kept without being examined
RECURSIVE DedupFromSkipping(_, _, _)
DedupFromSkipping(rest, seen_urls, seen_addresses) ==
    IF rest = <<>> THEN <<>>
    ELSE LET listing == Head(rest)
             after == Tail(rest)
             skipped == IF after = <<>> THEN <<>>
                        ELSE <<Head(after)>> \o
                             DedupFromSkipping(Tail(after), seen_urls, seen_addresses)
         IN  IF TruthyStr(listing.url)
             THEN IF listing.url \notin seen_urls
                  THEN <<listing>> \o DedupFromSkipping(after, seen_urls \cup {listing.url},
                                                       seen_addresses)
                  ELSE skipped
             ELSE IF TruthyStr(listing.address)
             THEN IF listing.address \notin seen_addresses
                  THEN <<listing>> \o DedupFromSkipping(after, seen_urls,
                                               seen_addresses \cup {listing.address})
                  ELSE skipped
             ELSE skipped

\* DedupFrom with one key set for both keys: the address of every kept
\* listing is remembered, and a listing with a url is also dropped when its
\* address was seen on a listing without a url
RECURSIVE DedupFromCrossKey(_, _, _)
DedupFromCrossKey(rest, seen_urls, seen_addresses) ==
    IF rest = <<>> THEN <<>>
    ELSE LET listing == Head(rest)
         IN  IF TruthyStr(listing.url)
             THEN IF listing.url \notin seen_urls /\ listing.address \notin seen_addresses
                  THEN <<listing>> \o DedupFromCrossKey(Tail(rest),
                                               seen_urls \cup {listing.url}, seen_addresses)
                  ELSE DedupFromCrossKey(Tail(rest), seen_urls, seen_addresses)
             ELSE IF TruthyStr(listing.address)
             THEN IF listing.address \notin seen_addresses
                  THEN <<listing>> \o DedupFromCrossKey(Tail(rest), seen_urls,
                                               seen_addresses \cup {listing.address})
                  ELSE DedupFromCrossKey(Tail(rest), seen_urls, seen_addresses)
             ELSE DedupFromCrossKey(Tail(rest), seen_urls, seen_addresses)

\* DedupFrom with unique_listings.insert(0, listing) in place of append (lines
\* 918, 922): a kept listing goes in front of those kept before it
RECURSIVE DedupFromPrepending(_, _, _)
DedupFromPrepending(rest, seen_urls, seen_addresses) ==
    IF rest = <<>> THEN <<>>
    ELSE LET listing == Head(rest)
         IN  IF TruthyStr(listing.url)
             THEN IF listing.url \notin seen_urls
                  THEN DedupFromPrepending(Tail(rest), seen_urls \cup {listing.url},
                                           seen_addresses) \o <<listing>>
                  ELSE DedupFromPrepending(Tail(rest), seen_urls, seen_addresses)
             ELSE IF TruthyStr(listing.address)
             THEN IF listing.address \notin seen_addresses
                  THEN DedupFromPrepending(Tail(rest), seen_urls,
                                seen_addresses \cup {listing.address}) \o <<listing>>
                  ELSE DedupFromPrepending(Tail(rest), seen_urls, seen_addresses)
             ELSE DedupFromPrepending(Tail(rest), seen_urls, seen_addresses)

RECURSIVE DedupFrom(_, _, _)
DedupFrom(rest, seen_urls, seen_addresses) ==
    IF rest = <<>> THEN <<>>
    ELSE LET listing == Head(rest)
         IN  IF TruthyStr(listing.url)
             THEN IF listing.url \notin seen_urls
                  THEN <<listing>> \o DedupFrom(Tail(rest), seen_urls \cup {listing.url},
                                               seen_addresses)
                  ELSE DedupFrom(Tail(rest), seen_urls, seen_addresses)
             ELSE IF TruthyStr(listing.address)
             THEN IF listing.address \notin seen_addresses
                  THEN <<listing>> \o DedupFrom(Tail(rest), seen_urls,
                                               seen_addresses \cup {listing.address})
                  ELSE DedupFrom(Tail(rest), seen_urls, seen_addresses)
             ELSE DedupFrom(Tail(rest), seen_urls, seen_addresses)

Dedup(all) == DedupFrom(all, {}, {})

(***************************************************************************)
(* Dates.  A datetime is a number of ticks, TicksPerDay ticks to the day;  *)
(* a parsed date (strptime of MM/DD/YYYY) is a multiple of TicksPerDay.    *)
(***************************************************************************)
TicksPerDay == 2     \* resolution of the clock within one day

Today == 4           \* the day on which the run happens

\* timedelta(days=d)
Days(d) == d * TicksPerDay

\* timedelta.days: whole days, rounded towards minus infinity
WholeDays(delta) == delta \div TicksPerDay

\* calculate_listing_date_from_days (lines 628-638), datetime.now() = clock
calculate_listing_date_from_days(days_on_market, clock) ==
    IF ~TruthyNum(days_on_market) \/ days_on_market[1] < 0 THEN None
    ELSE Some(clock - Days(days_on_market[1]))

(***************************************************************************)
(* Detail Enricher (scrape_listing_details, lines 642-758).  A detail page *)
(* is what each pattern cascade matches on it, in rule order: for every    *)
(* rule that matches, the value of its capture group (None when it does    *)
(* not parse); or the fetch or the parse raises.                           *)
(***************************************************************************)
SqftMin == 200

SqftMax == 10000

TaxesBound == 50000

FeesBound == 20000

NoDetails ==
    [sqft |-> None, taxes |-> None, fees |-> None, listing_date |-> None,
     days_on_market |-> None]

\* lines 670-677: the first date rule whose match parse_listing_date parses
RECURSIVE FirstParsedDate(_)
FirstParsedDate(matches) ==
    IF matches = <<>> THEN None
    ELSE IF Head(matches) # None THEN Head(matches)
    ELSE FirstParsedDate(Tail(matches))

\* lines 688-696: the first days rule whose calculated date is truthy
RECURSIVE FirstDatedDays(_, _)
FirstDatedDays(matches, clock) ==
    IF matches = <<>> THEN None
    ELSE IF calculate_listing_date_from_days(Some(Head(matches)), clock) # None
         THEN Some(Head(matches))
    ELSE FirstDatedDays(Tail(matches), clock)

\* lines 710-716: the first sqft rule whose number is in 200..10000
RECURSIVE FirstSqft(_)
FirstSqft(matches) ==
    IF matches = <<>> THEN None
    ELSE IF TruthyNum(Head(matches)) /\ SqftMin <= Head(matches)[1]
            /\ Head(matches)[1] <= SqftMax
         THEN Head(matches)
    ELSE FirstSqft(Tail(matches))

\* lines 728-734 and 747-753: the first rule whose number is in 1..bound-1
RECURSIVE FirstBelow(_, _)
FirstBelow(matches, bound) ==
    IF matches = <<>> THEN None
    ELSE IF TruthyNum(Head(matches)) /\ 0 < Head(matches)[1]
            /\ Head(matches)[1] < bound
         THEN Head(matches)
    ELSE FirstBelow(Tail(matches), bound)

\* scrape_listing_details with the two blocks of lines 670-696 exchanged: the
\* days rules are tried first, the date rules only when they gave nothing
scrape_listing_details_DaysFirst(page, clock) ==
    IF page.raises THEN NoDetails
    ELSE LET days == FirstDatedDays(page.days, clock)
             date == IF days = None THEN FirstParsedDate(page.date) ELSE None
         IN  [sqft |-> FirstSqft(page.sqft),
              taxes |-> FirstBelow(page.taxes, TaxesBound),
              fees |-> FirstBelow(page.fees, FeesBound),
              listing_date |-> IF days # None
                               THEN calculate_listing_date_from_days(days, clock)
                               ELSE date,
              days_on_market |-> days]

scrape_listing_details(page, clock) ==
    IF page.raises THEN NoDetails
    ELSE LET date == FirstParsedDate(page.date)
             days == IF date = None THEN FirstDatedDays(page.days, clock) ELSE None
         IN  [sqft |-> FirstSqft(page.sqft),
              taxes |-> FirstBelow(page.taxes, TaxesBound),
              fees |-> FirstBelow(page.fees, FeesBound),
              listing_date |-> IF date # None THEN date
                               ELSE calculate_listing_date_from_days(days, clock),
              days_on_market |-> days]

(***************************************************************************)
(* Enrichment of one listing (lines 934-949).                              *)
(***************************************************************************)
\* MergeDetails without the guards of lines 935-943: dict.update(details)
MergeDetailsOverwriting(listing, details) ==
    [listing EXCEPT
       !.sqft = details.sqft,
       !.taxes = details.taxes,
       !.fees = details.fees,
       !.listing_date = details.listing_date,
       !.days_on_market = details.days_on_market]

\* lines 935-944: a field is taken from details when details.get(field) is truthy
MergeDetails(listing, details) ==
    [listing EXCEPT
       !.sqft = IF TruthyNum(details.sqft) THEN details.sqft ELSE @,
       !.taxes = IF TruthyNum(details.taxes) THEN details.taxes ELSE @,
       !.fees = IF TruthyNum(details.fees) THEN details.fees ELSE @,
       !.listing_date = IF details.listing_date # None THEN details.listing_date ELSE @,
       !.days_on_market = IF TruthyNum(details.days_on_market)
                          THEN details.days_on_market ELSE @]

\* DeriveDays with int(time_difference.total_seconds() / 86400) in place of
\* time_difference.days: the difference is rounded towards zero
DeriveDaysTruncating(listing, clock) ==
    IF listing.listing_date # None /\ ~TruthyNum(listing.days_on_market)
    THEN LET delta == clock - listing.listing_date[1]
         IN  [listing EXCEPT !.days_on_market =
                 Some(IF delta >= 0 THEN delta \div TicksPerDay
                      ELSE -((-delta) \div TicksPerDay))]
    ELSE listing

\* lines 947-949: days_on_market from listing_date when it is not known
DeriveDays(listing, clock) ==
    IF listing.listing_date # None /\ ~TruthyNum(listing.days_on_market)
    THEN [listing EXCEPT !.days_on_market = Some(WholeDays(clock - listing.listing_date[1]))]
    ELSE listing

(***************************************************************************)
(* State of one call of scrape_streeteasy(url, api_key, scrape_details,    *)
(* max_pages).                                                             *)
(***************************************************************************)
VARIABLES
    pc,              \* "start", "fetch" (line 774), "details" (line 930), "done" (returned)
    max_pages,       \* argument
    scrape_details,  \* argument
    page_num,        \* loop variable of line 766
    all_listings,    \* accumulator (line 764) as the page loop leaves it (unused after 914)
    listings,        \* unique_listings / listings (lines 912, 924); the return value at "done"
    idx,             \* i of line 930: listings already handled by the enrichment loop
    details,         \* details of line 932, of the last listing enriched
    now,             \* datetime.now()
    responses,       \* what ScrapingBee answered to each page fetch, in order
    calls,           \* calls to the collaborators, in order: [op, arg]
    card_listing,    \* the listing as it was before line 932, of the last listing enriched
    merged_listing,  \* the same listing after line 944, before line 947
    relisted,        \* unique_listings of lines 909-924 run on their own output
    detail_pages,    \* what ScrapingBee answered to each detail fetch, in order: [at, page]
    details_cache,   \* st.cache_data of scrape_listing_details (line 641): url -> details
    api_calls,       \* st.session_state.api_calls (lines 579-581)
    api_credits,     \* st.session_state.api_credits (lines 584-586)
    cancel_requested, \* the caller asked to end the search: None, or Some(Len(calls)) then
    days_in,         \* argument of calculate_listing_date_from_days called on its own
    date_out,        \* what it returned
    days_back,       \* days_on_market that lines 947-949 derive from date_out
    invocations,     \* the locals of each of two overlapping calls of scrape_streeteasy
    state,           \* the AppState object (lines 68-91), the fields search_listings uses
    handlers         \* the invocations of search_listings (lines 259-300), in click order

\* the state of the call of scrape_streeteasy that Spec follows
run == <<pc, max_pages, scrape_details, page_num, all_listings, listings, idx,
         details, now, responses, calls, card_listing, merged_listing, relisted,
         detail_pages, details_cache>>

vars == <<run, api_calls, api_credits, cancel_requested, days_in, date_out, days_back,
          invocations, state, handlers>>

\* the page of the application: its state object and its running handlers
app == <<state, handlers>>

\* what no statement of that call reads or writes
side == <<cancel_requested, days_in, date_out, days_back, invocations, app>>

\* pd.DataFrame(listings): one row per listing, the columns are their keys
DataFrame(dicts) ==
    [columns |-> UNION {DOMAIN dicts[n] : n \in 1..Len(dicts)},
     rows |-> dicts]

\* AppState() of lines 70-89; a url is the list of the filter values in it
AppState ==
    [scrapingbee_api_key |-> "", max_price |-> 900000, is_loading |-> FALSE,
     results_df |-> DataFrame(<<>>), search_url |-> <<>>]

\* no search_listings handler is followed
AppIdle == state = AppState /\ handlers = <<>>

\* side as it is while that call alone is followed
SideIdle ==
    /\ cancel_requested = None
    /\ days_in = None
    /\ date_out = None
    /\ days_back = None
    /\ invocations = <<>>
    /\ AppIdle

\* lines 578-586 after a request that ScrapingBee answered (render_js is False)
Counted(n) ==
    /\ api_calls' = api_calls + n
    /\ api_credits' = api_credits + n

\* the cache of scrape_listing_details holds nothing
EmptyCache == [u \in {} |-> <<>>]

Call(op, arg) == [op |-> op, arg |-> arg]

\* sequences over S of length lo..hi
SeqsOf(S, lo, hi) == UNION {[1..n -> S] : n \in lo..hi}

RECURSIVE CardsServed(_)
CardsServed(resps) ==
    IF resps = <<>> THEN 0
    ELSE Len(Head(resps).cards) + CardsServed(Tail(resps))

(***************************************************************************)
(* Inputs explored: the cards of a results page and the detail pages.      *)
(***************************************************************************)
RaisingCard == Card(TRUE, None, None, <<>>)

PageCards ==
    {RaisingCard,
     Card(FALSE, None, Some(""), <<>>),
     Card(FALSE, None, Some("a1"), <<>>),
     Card(FALSE, Some("u1"), Some("a1"), <<>>),
     Card(FALSE, Some("u2"), Some("a1"), <<>>)}

DetailPage(raises, date, days, sqft, taxes, fees) ==
    [raises |-> raises, date |-> date, days |-> days, sqft |-> sqft,
     taxes |-> taxes, fees |-> fees]

RaisingPage == DetailPage(TRUE, <<>>, <<>>, <<>>, <<>>, <<>>)

DetailPages ==
    {RaisingPage,
     DetailPage(FALSE, <<>>, <<2>>, <<Some(850)>>, <<>>, <<>>)}

\* what a run less than 24 hours earlier can have left in the cache of
\* scrape_listing_details
EarlierCaches ==
    {EmptyCache,
     "u2" :> scrape_listing_details(
                DetailPage(FALSE, <<>>, <<2>>, <<Some(850)>>, <<>>, <<>>), Days(Today))}

(***************************************************************************)
(* After the page loop (lines 909-928): deduplicate, then either start the *)
(* enrichment loop or return.                                              *)
(***************************************************************************)
AfterLoop(all, made) ==
    LET unique_listings == Dedup(all)
        enrich == scrape_details /\ unique_listings # <<>>
    IN  /\ listings' = unique_listings
        /\ pc' = IF enrich THEN "details" ELSE "done"
        /\ calls' = IF enrich
                    THEN Append(made, Call("progress_bar", Len(unique_listings)))
                    ELSE made

\* line 766 with an empty range: max_pages < 1
Begin ==
    /\ pc = "start"
    /\ IF max_pages >= 1
       THEN /\ pc' = "fetch"
            /\ UNCHANGED <<listings, calls>>
       ELSE AfterLoop(all_listings, calls)
    /\ UNCHANGED side
    /\ UNCHANGED <<relisted, max_pages, scrape_details, page_num, all_listings, idx, details,
                   now, responses, card_listing, merged_listing, detail_pages,
                   details_cache, api_calls, api_credits>>

\* FetchPageCardsFrom with range(1, max_pages + 2): one page too many
FetchPageCardsOneMore(cardset) ==
    /\ pc = "fetch"
    /\ \E cards \in SeqsOf(cardset, 1, MaxCards - CardsServed(responses)) :
         LET made == Append(calls, Call("fetch_page", page_num))
             all == all_listings \o ParseCards(cards)
         IN  /\ responses' = Append(responses, [status |-> "ok", cards |-> cards])
             /\ all_listings' = all
             /\ IF page_num <= max_pages
                THEN /\ calls' = Append(made, Call("sleep", 1))
                     /\ page_num' = page_num + 1
                     /\ UNCHANGED <<pc, listings>>
                ELSE /\ AfterLoop(all, made)
                     /\ UNCHANGED page_num
    /\ Counted(1)
    /\ UNCHANGED side
    /\ UNCHANGED <<relisted, max_pages, scrape_details, idx, details, now, card_listing,
                   merged_listing, detail_pages, details_cache>>

\* FetchPageCardsFrom without the test of line 895: time.sleep(1) after every
\* page with cards, the last one included
FetchPageCardsFromAlwaysSleeping(cardset) ==
    /\ pc = "fetch"
    /\ \E cards \in SeqsOf(cardset, 1, MaxCards - CardsServed(responses)) :
         LET made == calls \o <<Call("fetch_page", page_num), Call("sleep", 1)>>
             all == all_listings \o ParseCards(cards)
         IN  /\ responses' = Append(responses, [status |-> "ok", cards |-> cards])
             /\ all_listings' = all
             /\ IF page_num < max_pages
                THEN /\ calls' = made
                     /\ page_num' = page_num + 1
                     /\ UNCHANGED <<pc, listings>>
                ELSE /\ AfterLoop(all, made)
                     /\ UNCHANGED page_num
    /\ Counted(1)
    /\ UNCHANGED side
    /\ UNCHANGED <<relisted, max_pages, scrape_details, idx, details, now, card_listing,
                   merged_listing, detail_pages, details_cache>>

\* FetchPageCardsFrom with a check of the caller's request at line 766: once
\* cancellation was requested the page loop is left without fetching
FetchPageCardsFromCancellable(cardset) ==
    /\ pc = "fetch"
    /\ IF cancel_requested # None
       THEN /\ AfterLoop(all_listings, calls)
            /\ UNCHANGED <<responses, all_listings, page_num, api_calls, api_credits>>
       ELSE /\ \E cards \in SeqsOf(cardset, 1, MaxCards - CardsServed(responses)) :
                 LET made == Append(calls, Call("fetch_page", page_num))
                     all == all_listings \o ParseCards(cards)
                 IN  /\ responses' = Append(responses, [status |-> "ok", cards |-> cards])
                     /\ all_listings' = all
                     /\ IF page_num < max_pages
                        THEN /\ calls' = Append(made, Call("sleep", 1))
                             /\ page_num' = page_num + 1
                             /\ UNCHANGED <<pc, listings>>
                        ELSE /\ AfterLoop(all, made)
                             /\ UNCHANGED page_num
            /\ Counted(1)
    /\ UNCHANGED side
    /\ UNCHANGED <<relisted, max_pages, scrape_details, idx, details, now, card_listing,
                   merged_listing, detail_pages, details_cache>>

\* lines 774-896: the page is fetched and has card elements, drawn from cardset
FetchPageCardsFrom(cardset) ==
    /\ pc = "fetch"
    /\ \E cards \in SeqsOf(cardset, 1, MaxCards - CardsServed(responses)) :
         LET made == Append(calls, Call("fetch_page", page_num))
             all == all_listings \o ParseCards(cards)
         IN  /\ responses' = Append(responses, [status |-> "ok", cards |-> cards])
             /\ all_listings' = all
             /\ IF page_num < max_pages
                THEN /\ calls' = Append(made, Call("sleep", 1))
                     /\ page_num' = page_num + 1
                     /\ UNCHANGED <<pc, listings>>
                ELSE /\ AfterLoop(all, made)
                     /\ UNCHANGED page_num
    /\ Counted(1)
    /\ UNCHANGED side
    /\ UNCHANGED <<relisted, max_pages, scrape_details, idx, details, now, card_listing,
                   merged_listing, detail_pages, details_cache>>

FetchPageCards == FetchPageCardsFrom(PageCards)

\* FetchPageEmpty with continue in place of the break of line 792
FetchPageEmptyContinuing ==
    /\ pc = "fetch"
    /\ responses' = Append(responses, [status |-> "ok", cards |-> <<>>])
    /\ Counted(1)
    /\ LET made == Append(calls, Call("fetch_page", page_num))
       IN  IF page_num < max_pages
           THEN /\ calls' = made
                /\ page_num' = page_num + 1
                /\ UNCHANGED <<pc, listings>>
           ELSE /\ AfterLoop(all_listings, made)
                /\ UNCHANGED page_num
    /\ UNCHANGED side
    /\ UNCHANGED <<relisted, max_pages, scrape_details, all_listings, idx, details,
                   now, card_listing, merged_listing, detail_pages, details_cache>>

\* lines 774-792: the page is fetched and no selector finds a card element
FetchPageEmpty ==
    /\ pc = "fetch"
    /\ responses' = Append(responses, [status |-> "ok", cards |-> <<>>])
    /\ Counted(1)
    /\ AfterLoop(all_listings, Append(calls, Call("fetch_page", page_num)))
    /\ UNCHANGED side
    /\ UNCHANGED <<relisted, max_pages, scrape_details, page_num, all_listings, idx, details,
                   now, card_listing, merged_listing, detail_pages, details_cache>>

\* requests.get (line 576) raises before the counters of lines 578-586 are
\* reached; raise_for_status (line 588) raises after them
Answered(status) == IF status = "exception" THEN 0 ELSE 1

\* ErrorCall without the 403 branch of line 899
ErrorCallGeneric(status) ==
    IF status = "exception" THEN Call("st_error", 0) ELSE Call("st_error_http", 0)

\* the st.error call of each except branch (lines 898-907)
ErrorCall(status) ==
    IF status = "403" THEN Call("st_error_forbidden", 403)
    ELSE IF status = "http" THEN Call("st_error_http", 0)
    ELSE Call("st_error", 0)

\* FetchPageFails losing the accumulator: the error empties all_listings
FetchPageFailsDiscarding ==
    /\ pc = "fetch"
    /\ \E status \in {"403", "http", "exception"} :
         /\ responses' = Append(responses, [status |-> status, cards |-> <<>>])
         /\ Counted(Answered(status))
         /\ all_listings' = <<>>
         /\ AfterLoop(<<>>, calls \o <<Call("fetch_page", page_num), ErrorCall(status)>>)
    /\ UNCHANGED side
    /\ UNCHANGED <<relisted, max_pages, scrape_details, page_num, idx, details,
                   now, card_listing, merged_listing, detail_pages, details_cache>>

\* FetchPageFails with continue in place of the breaks of lines 903 and 907
FetchPageFailsContinuing ==
    /\ pc = "fetch"
    /\ \E status \in {"403", "http", "exception"} :
         LET made == calls \o <<Call("fetch_page", page_num), ErrorCall(status)>>
         IN  /\ responses' = Append(responses, [status |-> status, cards |-> <<>>])
             /\ Counted(Answered(status))
             /\ IF page_num < max_pages
                THEN /\ calls' = made
                     /\ page_num' = page_num + 1
                     /\ UNCHANGED <<pc, listings>>
                ELSE /\ AfterLoop(all_listings, made)
                     /\ UNCHANGED page_num
    /\ UNCHANGED side
    /\ UNCHANGED <<relisted, max_pages, scrape_details, all_listings, idx, details,
                   now, card_listing, merged_listing, detail_pages, details_cache>>

\* FetchPageFails with a return in place of the breaks of lines 903 and 907:
\* the listings gathered so far are deduplicated and returned, not enriched
FetchPageFailsReturning ==
    /\ pc = "fetch"
    /\ \E status \in {"403", "http", "exception"} :
         /\ responses' = Append(responses, [status |-> status, cards |-> <<>>])
         /\ Counted(Answered(status))
         /\ listings' = Dedup(all_listings)
         /\ pc' = "done"
         /\ calls' = calls \o <<Call("fetch_page", page_num), ErrorCall(status)>>
    /\ UNCHANGED side
    /\ UNCHANGED <<relisted, max_pages, scrape_details, page_num, all_listings, idx, details,
                   now, card_listing, merged_listing, detail_pages, details_cache>>

\* lines 898-907: raise_for_status or the request raises
FetchPageFails ==
    /\ pc = "fetch"
    /\ \E status \in {"403", "http", "exception"} :
         /\ responses' = Append(responses, [status |-> status, cards |-> <<>>])
         /\ Counted(Answered(status))
         /\ AfterLoop(all_listings,
                      calls \o <<Call("fetch_page", page_num), ErrorCall(status)>>)
    /\ UNCHANGED side
    /\ UNCHANGED <<relisted, max_pages, scrape_details, page_num, all_listings, idx, details,
                   now, card_listing, merged_listing, detail_pages, details_cache>>

\* line 956 and 958 once the enrichment loop is over
AfterListing(made) ==
    /\ idx' = idx + 1
    /\ IF idx + 1 = Len(listings)
       THEN /\ calls' = Append(made, Call("progress_empty", 0))
            /\ pc' = "done"
       ELSE /\ calls' = made
            /\ pc' = "details"

\* lines 934-954 for the listing at idx + 1, got being the details of line 932
UpdateListing(got, made) ==
    LET listing == listings[idx + 1]
        merged == MergeDetails(listing, got)
    IN  /\ details' = got
        /\ card_listing' = listing
        /\ merged_listing' = merged
        /\ listings' = [listings EXCEPT ![idx + 1] = DeriveDays(merged, now)]
        /\ AfterListing(made \o <<Call("progress", idx + 1), Call("sleep", 1)>>)

\* EnrichListingFrom with a retry: the detail page is requested twice
EnrichListingFromTwice(pages) ==
    /\ pc = "details"
    /\ idx < Len(listings)
    /\ TruthyStr(listings[idx + 1].url)
    /\ listings[idx + 1].url[1] \notin DOMAIN details_cache
    /\ \E page \in pages :
         LET got == scrape_listing_details(page, now)
         IN  /\ detail_pages' = Append(detail_pages, [at |-> idx + 1, page |-> page])
             /\ details_cache' = (listings[idx + 1].url[1] :> got) @@ details_cache
             /\ UpdateListing(got, calls \o <<Call("fetch_detail", idx + 1),
                                                Call("fetch_detail", idx + 1)>>)
    /\ Counted(2)
    /\ UNCHANGED side
    /\ UNCHANGED <<relisted, max_pages, scrape_details, page_num, all_listings, now, responses>>

\* EnrichListingFrom without the try of line 644: a detail page that raises
\* ends the enrichment loop, the listings after it are not handled
EnrichListingFromAborting(pages) ==
    /\ pc = "details"
    /\ idx < Len(listings)
    /\ TruthyStr(listings[idx + 1].url)
    /\ listings[idx + 1].url[1] \notin DOMAIN details_cache
    /\ \E page \in pages :
         LET got == scrape_listing_details(page, now)
             made == Append(calls, Call("fetch_detail", idx + 1))
         IN  /\ detail_pages' = Append(detail_pages, [at |-> idx + 1, page |-> page])
             /\ IF page.raises
                THEN /\ pc' = "done"
                     /\ calls' = made
                     /\ idx' = idx + 1
                     /\ UNCHANGED <<details, card_listing, merged_listing, listings,
                                    details_cache>>
                ELSE /\ details_cache' = (listings[idx + 1].url[1] :> got) @@ details_cache
                     /\ UpdateListing(got, made)
    /\ Counted(1)
    /\ UNCHANGED side
    /\ UNCHANGED <<relisted, max_pages, scrape_details, page_num, all_listings, now, responses>>

\* lines 930-954 for a listing with a url whose details are not cached: the
\* detail page is fetched, drawn from pages
EnrichListingFrom(pages) ==
    /\ pc = "details"
    /\ idx < Len(listings)
    /\ TruthyStr(listings[idx + 1].url)
    /\ listings[idx + 1].url[1] \notin DOMAIN details_cache
    /\ \E page \in pages :
         LET got == scrape_listing_details(page, now)
         IN  /\ detail_pages' = Append(detail_pages, [at |-> idx + 1, page |-> page])
             /\ details_cache' = (listings[idx + 1].url[1] :> got) @@ details_cache
             /\ UpdateListing(got, Append(calls, Call("fetch_detail", idx + 1)))
    /\ Counted(1)
    /\ UNCHANGED side
    /\ UNCHANGED <<relisted, max_pages, scrape_details, page_num, all_listings, now, responses>>

\* lines 930-954 for a listing with a url whose details are cached (line 641):
\* scrape_listing_details is not run, the cached details are merged
EnrichListingCached ==
    /\ pc = "details"
    /\ idx < Len(listings)
    /\ TruthyStr(listings[idx + 1].url)
    /\ listings[idx + 1].url[1] \in DOMAIN details_cache
    /\ UpdateListing(details_cache[listings[idx + 1].url[1]],
                     Append(calls, Call("cache_hit", idx + 1)))
    /\ UNCHANGED side
    /\ UNCHANGED <<relisted, max_pages, scrape_details, page_num, all_listings, now, responses,
                   detail_pages, details_cache, api_calls, api_credits>>

EnrichListing == EnrichListingFrom(DetailPages)

\* lines 930-931 for a listing without a url
SkipListing ==
    /\ pc = "details"
    /\ idx < Len(listings)
    /\ ~TruthyStr(listings[idx + 1].url)
    /\ AfterListing(calls)
    /\ UNCHANGED side
    /\ UNCHANGED <<relisted, max_pages, scrape_details, page_num, all_listings, listings,
                   details, now, responses, card_listing, merged_listing, detail_pages,
                   details_cache, api_calls, api_credits>>

\* line 958: what scrape_streeteasy returns, one entry per returned value
Returned == <<listings>>

\* the dict of lines 798-808 before any extraction
BlankListing == NewListing(Card(FALSE, None, None, <<>>))

Init ==
    /\ pc = "start"
    /\ max_pages \in 0..MaxPages
    /\ scrape_details \in BOOLEAN
    /\ page_num = 1
    /\ all_listings = <<>>
    /\ listings = <<>>
    /\ idx = 0
    /\ details = NoDetails
    /\ now = Days(Today) + 1
    /\ responses = <<>>
    /\ calls = <<>>
    /\ card_listing = BlankListing
    /\ merged_listing = BlankListing
    /\ relisted = <<>>
    /\ detail_pages = <<>>
    /\ details_cache \in IF scrape_details THEN EarlierCaches ELSE {EmptyCache}
    /\ api_calls = 0
    /\ api_credits = 0
    /\ SideIdle

Next ==
    \/ Begin
    \/ FetchPageCards
    \/ FetchPageEmpty
    \/ FetchPageFails
    \/ EnrichListing
    \/ EnrichListingCached
    \/ SkipListing

Spec == Init /\ [][Next]_vars

(***************************************************************************)
(* A run during which the caller asks for the search to be cancelled.      *)
(* scrape_streeteasy(url, api_key, scrape_details, max_pages) has no       *)
(* parameter and no statement through which the request could reach it.    *)
(***************************************************************************)
CancelCards ==
    {Card(FALSE, None, Some("a1"), <<>>),
     Card(FALSE, Some("u1"), Some("a1"), <<>>),
     Card(FALSE, Some("u2"), Some("a1"), <<>>)}

\* the caller asks for cancellation while the search runs
RequestCancel ==
    /\ pc \in {"start", "fetch", "details"}
    /\ cancel_requested = None
    /\ cancel_requested' = Some(Len(calls))
    /\ UNCHANGED <<run, api_calls, api_credits, days_in, date_out, days_back, invocations,
                   app>>

NextCancel ==
    \/ RequestCancel
    \/ Begin
    \/ FetchPageCardsFrom(CancelCards)
    \/ FetchPageEmpty
    \/ FetchPageFails
    \/ EnrichListing
    \/ EnrichListingCached
    \/ SkipListing

SpecCancel == Init /\ [][NextCancel]_vars

(***************************************************************************)
(* The dedup step alone (lines 909-924), on every accumulator the page     *)
(* loop can leave: a one-page run at line 909, the page holding cards that *)
(* pass line 885, in any order.                                            *)
(***************************************************************************)
DedupCards ==
    {c \in {Card(FALSE, u, a, s) :
               u \in OptUrl, a \in OptAddress, s \in {<<>>, <<Some(700)>>}} :
        Retained(NewListing(c))}

InitDedup ==
    \E cards \in SeqsOf(DedupCards, 0, MaxDedupLen) :
       /\ pc = "dedup_in"
       /\ all_listings = ParseCards(cards)
       /\ max_pages = 1
       /\ scrape_details = FALSE
       /\ page_num = 1
       /\ listings = <<>>
       /\ idx = 0
       /\ details = NoDetails
       /\ now = Days(Today) + 1
       /\ responses = <<[status |-> "ok", cards |-> cards]>>
       /\ calls = <<Call("fetch_page", 1)>>
       /\ card_listing = BlankListing
       /\ merged_listing = BlankListing
       /\ relisted = <<>>
       /\ detail_pages = <<>>
       /\ details_cache = EmptyCache
       /\ api_calls = 1
       /\ api_credits = 1
       /\ SideIdle

\* lines 909-924 applied to the accumulator
DedupStep ==
    /\ pc = "dedup_in"
    /\ listings' = Dedup(all_listings)
    /\ pc' = "dedup_out"
    /\ UNCHANGED side
    /\ UNCHANGED <<relisted, max_pages, scrape_details, page_num, all_listings, idx, details,
                   now, responses, calls, card_listing, merged_listing, detail_pages,
                   details_cache, api_calls, api_credits>>

\* lines 909-924 applied to their own output
DedupAgain ==
    /\ pc = "dedup_out"
    /\ relisted' = Dedup(listings)
    /\ pc' = "dedup_again"
    /\ UNCHANGED side
    /\ UNCHANGED <<max_pages, scrape_details, page_num, all_listings, listings, idx,
                   details, now, responses, calls, card_listing, merged_listing,
                   detail_pages, details_cache, api_calls, api_credits>>

NextDedup == DedupStep \/ DedupAgain

SpecDedup == InitDedup /\ [][NextDedup]_vars

(***************************************************************************)
(* The enrichment of one listing (lines 930-954) on a wide range of cards  *)
(* and detail pages: a one-page run that found one card with a url.        *)
(***************************************************************************)
MergeCards ==
    {[Card(FALSE, Some("u1"), Some("a1"), s) EXCEPT
         !.neighborhood = Some("n1"), !.price = Some(850000), !.taxes = t, !.fees = f] :
        s \in {<<>>, <<Some(700)>>, <<Some(3), Some(700)>>},
        t \in {<<>>, <<Some(900)>>, <<Some(0), Some(900)>>},
        f \in {<<>>, <<Some(500)>>}}

MergePages ==
    {RaisingPage} \cup
    {DetailPage(FALSE, date, days, sqft, taxes, fees) :
        date \in {<<>>, <<Some(Days(Today - 3))>>, <<None, Some(Days(Today - 3))>>,
                  <<Some(Days(Today))>>, <<Some(Days(Today + 1))>>},
        days \in {<<>>, <<0>>, <<2>>, <<0, 2>>},
        sqft \in {<<>>, <<Some(850)>>, <<Some(3), Some(850)>>},
        taxes \in {<<>>, <<Some(1200)>>, <<Some(0), Some(1200)>>},
        fees \in {<<>>, <<Some(800)>>, <<Some(FeesBound)>>}}

InitMerge ==
    \E card \in MergeCards :
       /\ pc = "details"
       /\ max_pages = 1
       /\ scrape_details = TRUE
       /\ page_num = 1
       /\ all_listings = <<NewListing(card)>>
       /\ listings = <<NewListing(card)>>
       /\ idx = 0
       /\ details = NoDetails
       /\ now \in {Days(Today), Days(Today) + 1}
       /\ responses = <<[status |-> "ok", cards |-> <<card>>]>>
       /\ calls = <<Call("fetch_page", 1), Call("progress_bar", 1)>>
       /\ card_listing = BlankListing
       /\ merged_listing = BlankListing
       /\ relisted = <<>>
       /\ detail_pages = <<>>
       /\ details_cache = EmptyCache
       /\ api_calls = 1
       /\ api_credits = 1
       /\ SideIdle

EnrichOne == EnrichListingFrom(MergePages)

NextMerge == EnrichOne

SpecMerge == InitMerge /\ [][NextMerge]_vars

(***************************************************************************)
(* The two date helpers on their own: calculate_listing_date_from_days     *)
(* (lines 628-638) on every argument, then lines 947-949 on a listing that *)
(* holds the date it returned and no days_on_market.  The second           *)
(* datetime.now() is read later than the first, by less than a day.        *)
(***************************************************************************)
MaxDays == 20        \* largest days_on_market given to calculate_listing_date_from_days

DaysArguments == {None} \cup {Some(d) : d \in -1..MaxDays}

InitDates ==
    /\ pc = "days_in"
    /\ days_in \in DaysArguments
    /\ date_out = None
    /\ days_back = None
    /\ now \in {Days(Today), Days(Today) + 1}
    /\ max_pages = 0
    /\ scrape_details = FALSE
    /\ page_num = 1
    /\ all_listings = <<>>
    /\ listings = <<>>
    /\ idx = 0
    /\ details = NoDetails
    /\ responses = <<>>
    /\ calls = <<>>
    /\ card_listing = BlankListing
    /\ merged_listing = BlankListing
    /\ relisted = <<>>
    /\ detail_pages = <<>>
    /\ details_cache = EmptyCache
    /\ api_calls = 0
    /\ api_credits = 0
    /\ cancel_requested = None
    /\ invocations = <<>>
    /\ AppIdle

\* lines 628-638
CalculateDate ==
    /\ pc = "days_in"
    /\ date_out' = calculate_listing_date_from_days(days_in, now)
    /\ pc' = "date_out"
    /\ UNCHANGED <<max_pages, scrape_details, page_num, all_listings, listings, idx,
                   details, now, responses, calls, card_listing, merged_listing, relisted,
                   detail_pages, details_cache, api_calls, api_credits,
                   cancel_requested, days_in, days_back, invocations, app>>

\* lines 947-949 on a listing that holds date_out and no days_on_market
DeriveBack ==
    /\ pc = "date_out"
    /\ date_out # None
    /\ \E elapsed \in 0..(TicksPerDay - 1) :
         /\ now' = now + elapsed
         /\ days_back' =
               DeriveDays([BlankListing EXCEPT !.listing_date = date_out],
                          now + elapsed).days_on_market
    /\ pc' = "days_back"
    /\ UNCHANGED <<max_pages, scrape_details, page_num, all_listings, listings, idx,
                   details, responses, calls, card_listing, merged_listing, relisted,
                   detail_pages, details_cache, api_calls, api_credits,
                   cancel_requested, days_in, date_out, invocations, app>>

NextDates == CalculateDate \/ DeriveBack

SpecDates == InitDates /\ [][NextDates]_vars

(***************************************************************************)
(* Two calls of scrape_streeteasy that overlap in time, as two threads of  *)
(* one session.  all_listings is a local of each call (line 764); the      *)
(* counters are st.session_state.api_calls and api_credits, which every    *)
(* call of scrape_with_scrapingbee increments with += (lines 581, 586): a  *)
(* read, then a write, with no lock.  Both calls search the same url, page *)
(* k serving PageOf(k) to each; details are not asked for.                 *)
(***************************************************************************)
Invocations == {1, 2}

PageOf(k) ==
    <<Card(FALSE, Some(IF k % 2 = 1 THEN "u1" ELSE "u2"), Some("a1"), <<>>)>>

InitOverlap ==
    /\ invocations \in
          [Invocations ->
             {[pc |-> "get", page_num |-> 1, max_pages |-> m, all_listings |-> <<>>,
               listings |-> <<>>, fetched |-> 0, loaded |-> 0] : m \in 1..MaxPages}]
    /\ api_calls = 0
    /\ api_credits = 0
    /\ pc = "overlap"
    /\ max_pages = 0
    /\ scrape_details = FALSE
    /\ page_num = 1
    /\ all_listings = <<>>
    /\ listings = <<>>
    /\ idx = 0
    /\ details = NoDetails
    /\ now = Days(Today) + 1
    /\ responses = <<>>
    /\ calls = <<>>
    /\ card_listing = BlankListing
    /\ merged_listing = BlankListing
    /\ relisted = <<>>
    /\ detail_pages = <<>>
    /\ details_cache = EmptyCache
    /\ cancel_requested = None
    /\ days_in = None
    /\ date_out = None
    /\ days_back = None
    /\ AppIdle

\* line 576: ScrapingBee answers the request for the page
Get(i) ==
    /\ invocations[i].pc = "get"
    /\ invocations' = [invocations EXCEPT ![i].pc = "load_calls",
                                          ![i].fetched = @ + 1]
    /\ UNCHANGED <<run, api_calls, api_credits, cancel_requested, days_in, date_out,
                   days_back, app>>

\* line 581, the read of st.session_state.api_calls
LoadCalls(i) ==
    /\ invocations[i].pc = "load_calls"
    /\ invocations' = [invocations EXCEPT ![i].pc = "store_calls",
                                          ![i].loaded = api_calls]
    /\ UNCHANGED <<run, api_calls, api_credits, cancel_requested, days_in, date_out,
                   days_back, app>>

\* line 581, the write of st.session_state.api_calls
StoreCalls(i) ==
    /\ invocations[i].pc = "store_calls"
    /\ api_calls' = invocations[i].loaded + 1
    /\ invocations' = [invocations EXCEPT ![i].pc = "load_credits"]
    /\ UNCHANGED <<run, api_credits, cancel_requested, days_in, date_out, days_back, app>>

\* line 586, the read of st.session_state.api_credits
LoadCredits(i) ==
    /\ invocations[i].pc = "load_credits"
    /\ invocations' = [invocations EXCEPT ![i].pc = "store_credits",
                                          ![i].loaded = api_credits]
    /\ UNCHANGED <<run, api_calls, api_credits, cancel_requested, days_in, date_out,
                   days_back, app>>

\* line 586, the write of st.session_state.api_credits
StoreCredits(i) ==
    /\ invocations[i].pc = "store_credits"
    /\ api_credits' = invocations[i].loaded + 1
    /\ invocations' = [invocations EXCEPT ![i].pc = "parse"]
    /\ UNCHANGED <<run, api_calls, cancel_requested, days_in, date_out, days_back, app>>

\* what lines 778-924 make of the local state of one call once its page is there
Parsed(inv) ==
    LET all == inv.all_listings \o ParseCards(PageOf(inv.page_num))
    IN  IF inv.page_num < inv.max_pages
        THEN [inv EXCEPT !.pc = "get", !.all_listings = all, !.page_num = @ + 1]
        ELSE [inv EXCEPT !.pc = "done", !.all_listings = all, !.listings = Dedup(all)]

\* ParsePage with all_listings a module global: the cards of the page are
\* appended to the accumulator of every call
ParsePageShared(i) ==
    /\ invocations[i].pc = "parse"
    /\ invocations' =
          [j \in Invocations |->
             IF j = i
             THEN Parsed(invocations[i])
             ELSE [invocations[j] EXCEPT
                      !.all_listings = @ \o ParseCards(PageOf(invocations[i].page_num))]]
    /\ UNCHANGED <<run, api_calls, api_credits, cancel_requested, days_in, date_out,
                   days_back, app>>

\* lines 778-896 of one call, and lines 909-924 and 958 after its last page
ParsePage(i) ==
    /\ invocations[i].pc = "parse"
    /\ invocations' = [invocations EXCEPT ![i] = Parsed(invocations[i])]
    /\ UNCHANGED <<run, api_calls, api_credits, cancel_requested, days_in, date_out,
                   days_back, app>>

NextOverlap ==
    \E i \in Invocations :
       \/ Get(i)
       \/ LoadCalls(i)
       \/ StoreCalls(i)
       \/ LoadCredits(i)
       \/ StoreCredits(i)
       \/ ParsePage(i)

SpecOverlap == InitOverlap /\ [][NextOverlap]_vars

(***************************************************************************)
(* The Search button (search_listings, lines 259-300).  Every click starts *)
(* the handler as a coroutine of the one event loop: it runs without       *)
(* interruption to the await of line 283, where the scrape runs in a       *)
(* worker thread, and again without interruption from the end of the await *)
(* to its return.  Nothing disables the button while a search runs, so a   *)
(* click can start a second handler while the first one awaits.  Between   *)
(* clicks the user edits the sidebar inputs.                               *)
(***************************************************************************)
MaxSearches == 3     \* clicks of the Search button followed

Searches == 1..MaxSearches

ApiKeys == {"", "k1"}

Prices == {900000, 800000}

\* build_search_url (lines 20-24), the other filters left as they are
build_search_url(max_price) == <<max_price>>

\* what scrape_streeteasy can return to the handler
ScrapeResults ==
    {<<>>,
     <<NewListing(Card(FALSE, Some("u1"), Some("a1"), <<>>))>>,
     <<NewListing(Card(FALSE, Some("u2"), Some("a1"), <<>>))>>}

\* a click not made yet
IdleHandler == [pc |-> "idle", task |-> "none", listings |-> <<>>, burst |-> 0]

\* the handlers at the await of line 283 or between it and their return
Awaiting == {i \in Searches : handlers[i].pc = "awaiting"}

\* what no statement of search_listings reads or writes
scraper == <<run, cancel_requested, days_in, date_out, days_back, invocations>>

InitSearch ==
    /\ state = AppState
    /\ handlers = [i \in Searches |-> IdleHandler]
    /\ api_calls = 0
    /\ api_credits = 0
    /\ pc = "search"
    /\ max_pages = 0
    /\ scrape_details = FALSE
    /\ page_num = 1
    /\ all_listings = <<>>
    /\ listings = <<>>
    /\ idx = 0
    /\ details = NoDetails
    /\ now = Days(Today) + 1
    /\ responses = <<>>
    /\ calls = <<>>
    /\ card_listing = BlankListing
    /\ merged_listing = BlankListing
    /\ relisted = <<>>
    /\ detail_pages = <<>>
    /\ details_cache = EmptyCache
    /\ cancel_requested = None
    /\ days_in = None
    /\ date_out = None
    /\ days_back = None
    /\ invocations = <<>>

\* line 346: the user edits the API key input
SetApiKey ==
    /\ \E key \in ApiKeys \ {state.scrapingbee_api_key} :
          state' = [state EXCEPT !.scrapingbee_api_key = key]
    /\ UNCHANGED <<handlers, api_calls, api_credits, scraper>>

\* line 406: the user edits the maximum price
SetMaxPrice ==
    /\ \E price \in Prices \ {state.max_price} :
          state' = [state EXCEPT !.max_price = price]
    /\ UNCHANGED <<handlers, api_calls, api_credits, scraper>>

\* search_listings without the test of line 261: every click starts a search
search_listings_any_key(i) ==
    /\ handlers[i].pc = "idle"
    /\ \A j \in 1..(i - 1) : handlers[j].pc # "idle"
    /\ state' = [state EXCEPT !.results_df = DataFrame(<<>>),
                              !.is_loading = TRUE,
                              !.search_url = build_search_url(state.max_price)]
    /\ handlers' = [handlers EXCEPT
                       ![i].pc = "awaiting",
                       ![i].task = "running",
                       ![i].burst = IF Awaiting = {} THEN i
                                    ELSE handlers[CHOOSE j \in Awaiting : TRUE].burst]
    /\ UNCHANGED <<api_calls, api_credits, scraper>>

\* lines 259-283: the i-th click of the Search button, up to the await.  burst
\* names the searches in flight together: that of the search it joins, or a
\* new one when no handler awaits
search_listings(i) ==
    /\ handlers[i].pc = "idle"
    /\ \A j \in 1..(i - 1) : handlers[j].pc # "idle"
    /\ IF state.scrapingbee_api_key = ""
       THEN /\ handlers' = [handlers EXCEPT ![i].pc = "rejected"]
            /\ UNCHANGED state
       ELSE /\ state' = [state EXCEPT !.results_df = DataFrame(<<>>),
                                      !.is_loading = TRUE,
                                      !.search_url = build_search_url(state.max_price)]
            /\ handlers' = [handlers EXCEPT
                               ![i].pc = "awaiting",
                               ![i].task = "running",
                               ![i].burst = IF Awaiting = {} THEN i
                                            ELSE handlers[CHOOSE j \in Awaiting : TRUE].burst]
    /\ UNCHANGED <<api_calls, api_credits, scraper>>

\* the scrape of handler i returns its listings, its fetches counted (one here)
ScrapeReturns(i) ==
    /\ handlers[i].task = "running"
    /\ \E found \in ScrapeResults :
          handlers' = [handlers EXCEPT ![i].task = "returned", ![i].listings = found]
    /\ Counted(1)
    /\ UNCHANGED <<state, scraper>>

\* the scrape of handler i raises
ScrapeRaises(i) ==
    /\ handlers[i].task = "running"
    /\ handlers' = [handlers EXCEPT ![i].task = "raised"]
    /\ UNCHANGED <<state, api_calls, api_credits, scraper>>

\* lines 283-300: handler i from the end of the await to its return
AfterAwait(i) ==
    /\ handlers[i].pc = "awaiting"
    /\ handlers[i].task \in {"returned", "raised"}
    /\ state' = [state EXCEPT
                    !.results_df =
                        IF handlers[i].task = "raised" THEN DataFrame(<<>>)
                        ELSE IF handlers[i].listings # <<>>
                        THEN DataFrame(handlers[i].listings)
                        ELSE @,
                    !.is_loading = FALSE]
    /\ handlers' = [handlers EXCEPT ![i].pc = "finished"]
    /\ UNCHANGED <<api_calls, api_credits, scraper>>

NextSearch ==
    \/ SetApiKey
    \/ SetMaxPrice
    \/ \E i \in Searches :
          \/ search_listings(i)
          \/ ScrapeReturns(i)
          \/ ScrapeRaises(i)
          \/ AfterAwait(i)

SpecSearch == InitSearch /\ [][NextSearch]_vars

(***************************************************************************)
(* Vocabulary of the properties.                                           *)
(***************************************************************************)
\* the arguments of the calls with the given op, in call order
RECURSIVE ArgsOf(_, _)
ArgsOf(op, made) ==
    IF made = <<>> THEN <<>>
    ELSE IF Head(made).op = op THEN <<Head(made).arg>> \o ArgsOf(op, Tail(made))
    ELSE ArgsOf(op, Tail(made))

PagesFetched == ArgsOf("fetch_page", calls)

ErrorOps == {"st_error_forbidden", "st_error_http", "st_error"}

\* the st.error calls made, in call order
ErrorsShown == SelectSeq(calls, LAMBDA c : c.op \in ErrorOps)

\* the listings parsed from the first k page responses, in page order
RECURSIVE ParsedFrom(_, _)
ParsedFrom(resps, k) ==
    IF k = 0 THEN <<>>
    ELSE ParsedFrom(resps, k - 1) \o ParseCards(resps[k].cards)

\* the fields of a listing that only the Card Parser writes
CardIdentity(l) ==
    [url |-> l.url, address |-> l.address, neighborhood |-> l.neighborhood,
     price |-> l.price]

\* two lists hold the same listings, up to the fields enrichment fills in
SameListings(a, b) ==
    /\ Len(a) = Len(b)
    /\ \A n \in 1..Len(a) : CardIdentity(a[n]) = CardIdentity(b[n])

LoopOver == pc \in {"details", "done"}

FailedStatuses == {"403", "http", "exception"}

LastResponse == responses[Len(responses)]

\* the page loop ended on a failed fetch
EndedOnFailure ==
    LoopOver /\ responses # <<>> /\ LastResponse.status \in FailedStatuses

\* the page loop ended on a page without card elements
EndedOnEmptyPage ==
    /\ LoopOver /\ responses # <<>>
    /\ LastResponse.status = "ok" /\ LastResponse.cards = <<>>

(***************************************************************************)
(* C1.  When the fetch of page k fails (403, another HTTP error or any     *)
(* other exception) after pages 1..k-1 were fetched with cards, the list   *)
(* the search works on and returns is the deduplication of the listings    *)
(* parsed from pages 1..k-1: equal to it when the dedup step has run, and  *)
(* still the same listings (enrichment only fills fields in) at return.    *)
(***************************************************************************)
C1_PartialResultsReturned ==
    EndedOnFailure =>
        LET k == Len(responses)
            expected == Dedup(ParsedFrom(responses, k - 1))
        IN  /\ \A j \in 1..(k - 1) :
                   responses[j].status = "ok" /\ responses[j].cards # <<>>
            /\ SameListings(listings, expected)
            /\ (idx = 0 => listings = expected)
            /\ (idx = 0 => all_listings = ParsedFrom(responses, k - 1))

C1_Witness ==
    /\ pc = "done"
    /\ Len(responses) = 3
    /\ LastResponse.status = "403"
    /\ Len(listings) = 2

\* the terminal status the specification gives to a run
TerminalStatus ==
    IF EndedOnFailure /\ LastResponse.status = "403" THEN "endedEarly(forbidden)"
    ELSE IF EndedOnFailure THEN "endedEarly(error)"
    ELSE "completed"

(***************************************************************************)
(* C2 as stated.  The search returns the record list together with a       *)
(* terminal status telling why the run ended: endedEarly(forbidden) after  *)
(* a 403, endedEarly(error) after another failure, completed otherwise.    *)
(***************************************************************************)
C2_StatusReturned ==
    pc = "done" => (Len(Returned) = 2 /\ Returned[2] = TerminalStatus)

(***************************************************************************)
(* C2 as amended.  The search returns the record list alone; why the run   *)
(* ended is told through st.error only: one "access forbidden" message     *)
(* after a 403, one "HTTP Error" or "Error" message after another failed   *)
(* fetch, and no message when max_pages was exhausted or a page had no     *)
(* cards.                                                                  *)
(***************************************************************************)
C2_ReasonShownNotReturned ==
    /\ Len(Returned) = 1
    /\ ~LoopOver => ErrorsShown = <<>>
    /\ LoopOver =>
         IF EndedOnFailure
         THEN ErrorsShown =
                 IF LastResponse.status = "403"
                 THEN <<Call("st_error_forbidden", 403)>>
                 ELSE IF LastResponse.status = "http"
                 THEN <<Call("st_error_http", 0)>>
                 ELSE <<Call("st_error", 0)>>
         ELSE ErrorsShown = <<>>

C2_Witness ==
    /\ pc = "done"
    /\ Len(responses) = 2
    /\ LastResponse.status = "403"
    /\ listings # <<>>
    /\ ErrorsShown = <<Call("st_error_forbidden", 403)>>

(***************************************************************************)
(* C3.  A fetched page k without card elements ends the page loop: it is   *)
(* the last page fetched, no error is shown, and the result is the         *)
(* deduplication of the listings of pages 1..k-1.                          *)
(***************************************************************************)
C3_EmptyPageEndsRun ==
    \A k \in 1..Len(responses) :
       (responses[k].status = "ok" /\ responses[k].cards = <<>>) =>
           LET expected == Dedup(ParsedFrom(responses, k - 1))
           IN  /\ k = Len(responses)
               /\ LoopOver
               /\ Len(PagesFetched) = k
               /\ \A n \in 1..k : PagesFetched[n] = n
               /\ ErrorsShown = <<>>
               /\ SameListings(listings, expected)
               /\ (idx = 0 => listings = expected)

C3_Witness ==
    /\ pc = "done"
    /\ EndedOnEmptyPage
    /\ Len(responses) = 2
    /\ Len(responses[1].cards) = 3
    /\ PagesFetched = <<1, 2>>
    /\ Len(listings) = 3

(***************************************************************************)
(* C4.  A failed page fetch is the last page fetch of the invocation: the  *)
(* page loop is over, page k was requested once and no page after it.      *)
(***************************************************************************)
C4_NoFetchAfterFailure ==
    \A k \in 1..Len(responses) :
       responses[k].status \in FailedStatuses =>
           /\ k = Len(responses)
           /\ LoopOver
           /\ Len(PagesFetched) = k
           /\ \A n \in 1..k : PagesFetched[n] = n

C4_Witness ==
    /\ pc = "done"
    /\ max_pages = 3
    /\ Len(responses) = 2
    /\ LastResponse.status = "http"
    /\ idx > 0

(***************************************************************************)
(* C5.  The pages fetched are 1, 2, ..., m in this order, each once, with  *)
(* m <= max_pages; with max_pages = 0 no page is fetched.                  *)
(***************************************************************************)
C5_PagesInOrder ==
    /\ Len(PagesFetched) <= max_pages
    /\ Len(PagesFetched) = Len(responses)
    /\ \A n \in 1..Len(PagesFetched) : PagesFetched[n] = n

C5_Witness ==
    /\ pc = "done"
    /\ max_pages = 3
    /\ PagesFetched = <<1, 2, 3>>
    /\ LastResponse.status = "ok"
    /\ LastResponse.cards # <<>>

\* the listing at position i is the first of all with its dedup key
FirstOfItsKey(all, i) ==
    IF TruthyStr(all[i].url)
    THEN \A j \in 1..(i - 1) : all[j].url # all[i].url
    ELSE /\ TruthyStr(all[i].address)
         /\ \A j \in 1..(i - 1) :
               TruthyStr(all[j].url) \/ all[j].address # all[i].address

\* the listings of all at the positions from i on that are first of their key
RECURSIVE FirstsFrom(_, _)
FirstsFrom(all, i) ==
    IF i > Len(all) THEN <<>>
    ELSE (IF FirstOfItsKey(all, i) THEN <<all[i]>> ELSE <<>>) \o FirstsFrom(all, i + 1)

C7_DedupIdempotent ==
    pc = "dedup_again" => relisted = listings

C7_Witness ==
    /\ pc = "dedup_again"
    /\ Len(all_listings) = 3
    /\ Len(listings) = 2
    /\ listings[1].url = None
    /\ listings[2].url # None
    /\ listings[2].address # None
    /\ relisted = listings

\* the dedup step has run on two listings that share an address
TwoWithOneAddress ==
    /\ pc = "dedup_out"
    /\ Len(all_listings) = 2
    /\ TruthyStr(all_listings[1].address)
    /\ all_listings[1].address = all_listings[2].address

(***************************************************************************)
(* C8 as stated.  Of two accumulated listings with the same address, a     *)
(* listing without a url followed by one with a url collapses to one       *)
(* listing, and listings are kept both when the first has a url and the    *)
(* second has another url or none.                                         *)
(***************************************************************************)
C8_CollapseWhenFirstHasNoUrl ==
    TwoWithOneAddress =>
        LET first == all_listings[1]
            second == all_listings[2]
        IN  /\ (~TruthyStr(first.url) /\ TruthyStr(second.url)) => Len(listings) = 1
            /\ (TruthyStr(first.url) /\ first.url # second.url) => Len(listings) = 2

(***************************************************************************)
(* C8 as amended.  Two accumulated listings with the same address collapse *)
(* only when neither has a url or both have the same url; a listing        *)
(* without a url followed by one with a url are both kept, as are a        *)
(* listing with a url followed by one without, and two with different      *)
(* urls.                                                                   *)
(***************************************************************************)
C8_AddressKeyOnlyWithoutUrls ==
    TwoWithOneAddress =>
        LET first == all_listings[1]
            second == all_listings[2]
            collapse == \/ ~TruthyStr(first.url) /\ ~TruthyStr(second.url)
                        \/ TruthyStr(first.url) /\ first.url = second.url
        IN  listings = IF collapse THEN <<first>> ELSE <<first, second>>

C8_Witness ==
    /\ TwoWithOneAddress
    /\ all_listings[1].url = None
    /\ all_listings[2].url = Some("u1")
    /\ listings = all_listings

\* the listing has a url or an address
Identifiable(l) ==
    \/ l.url # None /\ l.url # Some("")
    \/ l.address # None /\ l.address # Some("")

AllIdentifiable(ls) == \A n \in 1..Len(ls) : Identifiable(ls[n])

(***************************************************************************)
(* C9.  No listing without both a url and an address is in the output of   *)
(* the Card Parser, in the accumulator or in the list the search works on  *)
(* and returns.                                                            *)
(***************************************************************************)
C9_NoUnidentifiableListing ==
    /\ \A k \in 1..Len(responses) : AllIdentifiable(ParseCards(responses[k].cards))
    /\ AllIdentifiable(all_listings)
    /\ AllIdentifiable(listings)

C9_Witness ==
    /\ pc = "done"
    /\ Len(responses) = 1
    /\ Len(responses[1].cards) = 3
    /\ \E n \in 1..3 : /\ ~responses[1].cards[n].raises
                       /\ ~Identifiable(NewListing(responses[1].cards[n]))
    /\ Len(all_listings) = 2
    /\ Len(listings) = 2

\* the fields the Detail Enricher can return
EnrichedFields == {"sqft", "taxes", "fees", "listing_date", "days_on_market"}

(***************************************************************************)
(* C10.  The merge of lines 935-944 takes each of sqft, taxes, fees,       *)
(* listing_date and days_on_market from the details when the enricher      *)
(* returned it and keeps the card's value when it did not; address,        *)
(* neighborhood, price and url are those of the card, in the merged        *)
(* listing and in the listing as enrichment leaves it.                     *)
(***************************************************************************)
C10_MergeKeepsCardValues ==
    idx > 0 =>
        /\ \A f \in EnrichedFields :
              merged_listing[f] = IF details[f] # None THEN details[f]
                                  ELSE card_listing[f]
        /\ CardIdentity(merged_listing) = CardIdentity(card_listing)
        /\ CardIdentity(listings[idx]) = CardIdentity(card_listing)
        /\ \A f \in EnrichedFields \ {"days_on_market"} :
              listings[idx][f] = merged_listing[f]

C10_Witness ==
    /\ idx = 1
    /\ card_listing.sqft = Some(700)
    /\ card_listing.taxes = None
    /\ details.sqft = None
    /\ details.taxes = Some(1200)
    /\ listings[1].sqft = Some(700)
    /\ listings[1].taxes = Some(1200)

\* the positions of the listings with a url, in list order
RECURSIVE UrlPositions(_, _)
UrlPositions(ls, i) ==
    IF i > Len(ls) THEN <<>>
    ELSE (IF TruthyStr(ls[i].url) THEN <<i>> ELSE <<>>) \o UrlPositions(ls, i + 1)

\* the listings lines 932-954 were run for, in call order
Enriched == ArgsOf("progress", calls)

(***************************************************************************)
(* C11.  A detail page whose fetch or parse raises never aborts the batch: *)
(* the Detail Enricher returned the empty field set for that listing, the  *)
(* listing keeps exactly the fields its card gave it, no error is shown    *)
(* for it, the enrichment loop goes on, and at return every listing with a *)
(* url has been through enrichment and the list holds all the deduplicated *)
(* listings.                                                               *)
(***************************************************************************)
C11_DetailFailureIsolated ==
    /\ \A n \in 1..Len(detail_pages) :
          detail_pages[n].page.raises =>
              LET i == detail_pages[n].at
              IN  /\ listings[i] = Dedup(all_listings)[i]
                  /\ (idx = i /\ n = Len(detail_pages)) => details = NoDetails
                  /\ idx >= i
                  /\ pc \in {"details", "done"}
                  /\ Len(ErrorsShown) = IF EndedOnFailure THEN 1 ELSE 0
    /\ pc = "details" => idx < Len(listings)
    /\ (pc = "done" /\ scrape_details) =>
          /\ Enriched = UrlPositions(listings, 1)
          /\ SameListings(listings, Dedup(all_listings))
          /\ listings # <<>> => calls[Len(calls)] = Call("progress_empty", 0)

C11_Witness ==
    /\ pc = "done"
    /\ Len(listings) = 3
    /\ Len(detail_pages) = 2
    /\ detail_pages[1].page.raises
    /\ ~detail_pages[2].page.raises
    /\ detail_pages[1].at < detail_pages[2].at
    /\ listings[detail_pages[1].at].sqft = None
    /\ listings[detail_pages[2].at].sqft = Some(850)
    /\ ErrorsShown = <<>>

\* the page and detail fetches among the calls made after the first k
FetchesAfter(k) ==
    SelectSeq(SubSeq(calls, k + 1, Len(calls)),
              LAMBDA c : c.op \in {"fetch_page", "fetch_detail"})

(***************************************************************************)
(* C12 as stated.  Once the caller has requested cancellation, at most the *)
(* fetch in progress is still issued and no page or detail fetch after it  *)
(* (the search then returning what it has accumulated, as cancelled).      *)
(***************************************************************************)
C12_CancelStopsFetches ==
    cancel_requested # None => Len(FetchesAfter(cancel_requested[1])) <= 1

(***************************************************************************)
(* C12 as amended.  A running search cannot be cancelled: a request of     *)
(* the caller reaches no statement of scrape_streeteasy, and the run goes  *)
(* on as without it.  At return the page loop has ended by itself (the     *)
(* last page was max_pages, had no cards or failed), every listing with a  *)
(* url has been through enrichment when details were asked for, and the    *)
(* list is returned alone, with no status.                                 *)
(***************************************************************************)
C12_RequestHasNoEffect ==
    (cancel_requested # None /\ pc = "done") =>
        /\ \/ Len(PagesFetched) = max_pages
           \/ EndedOnFailure
           \/ EndedOnEmptyPage
        /\ idx = 0 => listings = Dedup(ParsedFrom(responses, Len(responses)))
        /\ SameListings(listings, Dedup(ParsedFrom(responses, Len(responses))))
        /\ scrape_details => Enriched = UrlPositions(listings, 1)
        /\ Len(Returned) = 1

C12_Witness ==
    /\ pc = "done"
    /\ cancel_requested = Some(0)
    /\ PagesFetched = <<1, 2, 3>>
    /\ Len(FetchesAfter(0)) = 5
    /\ Len(listings) = 3

(***************************************************************************)
(* C13.  Round trip between days and date: for every d >= 0, 0 included,   *)
(* calculate_listing_date_from_days(d) is a date, and the whole-day        *)
(* difference now - date that lines 947-949 derive from it is d.           *)
(***************************************************************************)
C13_DaysDateRoundTrip ==
    (pc \in {"date_out", "days_back"} /\ days_in # None /\ days_in[1] >= 0) =>
        /\ date_out # None
        /\ pc = "days_back" => days_back = days_in

\* the plausible values of sqft, taxes and fees
Plausible ==
    [sqft |-> 200..10000, taxes |-> 1..49999, fees |-> 1..19999]

RangedFields == {"sqft", "taxes", "fees"}

\* the value of the first match that is a number of the set, None without one
FirstIn(matches, range) ==
    LET hits == {k \in 1..Len(matches) :
                    matches[k] # None /\ matches[k][1] \in range}
    IN  IF hits = {} THEN None
        ELSE matches[CHOOSE k \in hits : \A j \in hits : k <= j]

\* the one card of the run, its one listing, and the detail page fetched for it
TheCard == responses[1].cards[1]

ThePage == detail_pages[1].page

(***************************************************************************)
(* C14 as stated.  In the card cascade and in the detail cascade alike,    *)
(* sqft, taxes and fees are the value of the first rule that matches with  *)
(* a number in the plausible range (200-10,000, 1-49,999, 1-19,999), a     *)
(* match out of range being passed over, and absent without such a rule;   *)
(* no listing holds a value out of range.                                  *)
(***************************************************************************)
C14_FirstPlausibleInBothCascades ==
    \A f \in RangedFields :
       /\ all_listings[1][f] = FirstIn(TheCard[f], Plausible[f])
       /\ (idx = 1 /\ ~ThePage.raises) => details[f] = FirstIn(ThePage[f], Plausible[f])
       /\ listings[1][f] = None \/ listings[1][f][1] \in Plausible[f]

(***************************************************************************)
(* C14 as amended.  Only the detail cascade has plausibility ranges: there *)
(* sqft, taxes and fees are the value of the first rule that matches with  *)
(* a number in 200-10,000, 1-49,999, 1-19,999, a match out of range being  *)
(* passed over, and absent without such a rule.  In the card cascade the   *)
(* first rule that matches gives the value whatever the number, and the    *)
(* later rules are not tried.  The listing holds the value of the detail   *)
(* cascade when there is one and the card's value otherwise, so a value    *)
(* out of range (sqft = 3) is stored when the card gives it and the detail *)
(* page gives none.                                                        *)
(***************************************************************************)
C14_PlausibleInDetailCascadeOnly ==
    \A f \in RangedFields :
       /\ all_listings[1][f] = IF TheCard[f] = <<>> THEN None ELSE TheCard[f][1]
       /\ idx = 1 =>
             /\ ThePage.raises => details[f] = None
             /\ ~ThePage.raises => details[f] = FirstIn(ThePage[f], Plausible[f])
             /\ listings[1][f] = IF details[f] # None THEN details[f]
                                 ELSE all_listings[1][f]

C14_Witness ==
    /\ idx = 1
    /\ TheCard.sqft = <<Some(3), Some(700)>>
    /\ ThePage.sqft = <<>>
    /\ listings[1].sqft = Some(3)
    /\ TheCard.taxes = <<Some(900)>>
    /\ ThePage.taxes = <<Some(0), Some(1200)>>
    /\ listings[1].taxes = Some(1200)
    /\ ThePage.fees = <<Some(20000)>>
    /\ listings[1].fees = None

\* the accumulator of a call that runs alone, after n pages
RECURSIVE AloneAfter(_)
AloneAfter(n) ==
    IF n = 0 THEN <<>> ELSE AloneAfter(n - 1) \o ParseCards(PageOf(n))

\* the pages a call has parsed
PagesParsed(inv) == IF inv.pc = "done" THEN inv.max_pages ELSE inv.page_num - 1

BothReturned == \A i \in Invocations : invocations[i].pc = "done"

FetchedByBoth == invocations[1].fetched + invocations[2].fetched

(***************************************************************************)
(* C15 as stated.  Of two overlapping invocations each has counters of its *)
(* own: when both have returned, the call and credit counters of each are  *)
(* what it would have counted running alone, the number of its own         *)
(* fetches.                                                                *)
(***************************************************************************)
C15_CountersOfOneInvocation ==
    BothReturned =>
        \A i \in Invocations :
           /\ api_calls = invocations[i].fetched
           /\ api_credits = invocations[i].fetched

(***************************************************************************)
(* C15 as amended.  Of two overlapping invocations each has its own        *)
(* accumulator and returns the list it would return running alone.  The    *)
(* call and credit counters are one pair for the session, incremented by   *)
(* the fetches of both with an unguarded read and write: they never exceed *)
(* the number of fetches of both together, fall short of it when an        *)
(* increment is lost, and are at least 1 once a fetch was counted.         *)
(***************************************************************************)
C15_OnlyAccumulatorsAreOwn ==
    /\ \A i \in Invocations :
          LET inv == invocations[i]
          IN  /\ inv.all_listings = AloneAfter(PagesParsed(inv))
              /\ inv.pc = "done" => inv.listings = Dedup(AloneAfter(inv.max_pages))
    /\ api_calls <= FetchedByBoth
    /\ api_credits <= FetchedByBoth
    /\ BothReturned => (api_calls >= 1 /\ api_credits >= 1)

C15_Witness ==
    /\ BothReturned
    /\ invocations[1].fetched = 2
    /\ invocations[2].fetched = 1
    /\ Len(invocations[1].listings) = 2
    /\ Len(invocations[2].listings) = 1
    /\ api_calls = 2
    /\ api_credits = 3

\* the listings of the cards of one page that parse and have a url or an
\* address, in document order
ListingsOf(cards) ==
    LET kept == SelectSeq(cards, LAMBDA c : ~c.raises /\ Identifiable(NewListing(c)))
    IN  [n \in 1..Len(kept) |-> NewListing(kept[n])]

\* the same over the first k page responses, pages in increasing order
RECURSIVE AccumulatedFrom(_, _)
AccumulatedFrom(resps, k) ==
    IF k = 0 THEN <<>>
    ELSE AccumulatedFrom(resps, k - 1) \o ListingsOf(resps[k].cards)

\* a is b with some elements left out
RECURSIVE IsSubsequence(_, _)
IsSubsequence(a, b) ==
    IF a = <<>> THEN TRUE
    ELSE IF b = <<>> THEN FALSE
    ELSE IF Head(a) = Head(b) THEN IsSubsequence(Tail(a), Tail(b))
    ELSE IsSubsequence(a, Tail(b))

(***************************************************************************)
(* C16.  Deduplication preserves first-seen order: the accumulated list    *)
(* holds the listings of pages 1, 2, ... in this order, the cards of a     *)
(* page in document order, and the deduplicated list is a subsequence of   *)
(* it: its listings are accumulated listings, unaltered, in the order in   *)
(* which they were accumulated.                                            *)
(***************************************************************************)
C16_DedupKeepsOrder ==
    /\ all_listings = AccumulatedFrom(responses, Len(responses))
    /\ (LoopOver /\ idx = 0) => IsSubsequence(listings, all_listings)
    /\ LoopOver =>
          IsSubsequence([n \in 1..Len(listings) |-> CardIdentity(listings[n])],
                        [n \in 1..Len(all_listings) |-> CardIdentity(all_listings[n])])

C16_Witness ==
    /\ LoopOver
    /\ idx = 0
    /\ Len(responses) = 2
    /\ Len(responses[1].cards) = 2
    /\ Len(all_listings) = 3
    /\ all_listings[1].url = None
    /\ all_listings[2] = all_listings[1]
    /\ listings = <<all_listings[1], all_listings[3]>>

DetailFetches == ArgsOf("fetch_detail", calls)

\* the listings whose details were asked for, fetched or served by the cache
DetailsAsked ==
    LET asked == SelectSeq(calls, LAMBDA c : c.op \in {"fetch_detail", "cache_hit"})
    IN  [n \in 1..Len(asked) |-> asked[n].arg]

\* every detail fetch is made after the last page fetch
DetailsAfterPages ==
    \A m \in 1..Len(calls) :
       calls[m].op = "fetch_detail" =>
           \A n \in m..Len(calls) : calls[n].op # "fetch_page"

(***************************************************************************)
(* C17 as stated.  Every detail fetch comes after the last page fetch, and *)
(* at return of a search with details exactly one detail fetch was issued  *)
(* for each deduplicated listing with a url, none for a listing without,   *)
(* in the order of the deduplicated list.                                  *)
(***************************************************************************)
C17_OneFetchPerUrlListing ==
    /\ DetailsAfterPages
    /\ (pc = "done" /\ scrape_details) => DetailFetches = UrlPositions(listings, 1)

(***************************************************************************)
(* C17 as amended.  Every detail fetch comes after the last page fetch;    *)
(* the detail fetches are issued one by one in the order of the            *)
(* deduplicated list, at most one for a listing, each for a listing with a *)
(* url; for a listing whose url is in the 24-hour cache of                 *)
(* scrape_listing_details no fetch is issued and the cached details are    *)
(* used.  At return of a search with details, each listing with a url had  *)
(* exactly one of the two, a fetch or a cache hit, in list order.          *)
(***************************************************************************)
C17_OneFetchOrCacheHitPerUrlListing ==
    /\ DetailsAfterPages
    /\ \A n \in 1..Len(DetailFetches) :
          /\ TruthyStr(listings[DetailFetches[n]].url)
          /\ n > 1 => DetailFetches[n - 1] < DetailFetches[n]
    /\ Len(DetailFetches) = Len(detail_pages)
    /\ \A m \in 1..Len(calls) :
          calls[m].op = "cache_hit" =>
              \A n \in 1..Len(calls) :
                 calls[n].op = "fetch_detail" => calls[m].arg # calls[n].arg
    /\ (pc = "done" /\ scrape_details) => DetailsAsked = UrlPositions(listings, 1)
    /\ ~scrape_details => DetailsAsked = <<>>

C17_Witness ==
    /\ pc = "done"
    /\ Len(listings) = 3
    /\ listings[1].url = None
    /\ listings[2].url = Some("u2")
    /\ listings[3].url = Some("u1")
    /\ DetailFetches = <<3>>
    /\ DetailsAsked = <<2, 3>>
    /\ PagesFetched = <<1, 2>>

(***************************************************************************)
(* C18.  Page pacing: a page fetch that is followed by another page fetch  *)
(* is followed by one time.sleep(1) and then by that fetch; the last page  *)
(* fetch of the invocation, be it of page max_pages, of a page without     *)
(* cards or a failed one, is not followed by a sleep.  (The sleeps of the  *)
(* enrichment loop follow a progress report, not a page fetch.)            *)
(***************************************************************************)
C18_PagePacing ==
    \A n \in 1..Len(calls) :
       calls[n].op = "fetch_page" =>
           IF \E m \in (n + 1)..Len(calls) : calls[m].op = "fetch_page"
           THEN calls[n + 1] = Call("sleep", 1) /\ calls[n + 2].op = "fetch_page"
           ELSE IF LoopOver
           THEN n = Len(calls) \/ calls[n + 1].op # "sleep"
           ELSE /\ pc = "fetch"
                /\ calls[n].arg < max_pages
                /\ Len(calls) = n + 1
                /\ calls[n + 1] = Call("sleep", 1)

C18_Witness ==
    /\ pc = "done"
    /\ max_pages = 3
    /\ Len(responses) = 2
    /\ LastResponse.status = "ok"
    /\ LastResponse.cards = <<>>
    /\ Len(calls) > 4
    /\ SubSeq(calls, 1, 4) = <<Call("fetch_page", 1), Call("sleep", 1),
                                Call("fetch_page", 2), Call("progress_bar", 2)>>
    /\ calls[Len(calls) - 1] = Call("sleep", 1)

\* the cards of a page without those that raise
WithoutRaising(cards) == SelectSeq(cards, LAMBDA c : ~c.raises)

(***************************************************************************)
(* C19.  A card that raises while being parsed drops only that card: the   *)
(* page adds to the accumulator what it would add without the card, the    *)
(* listings of its other cards that have a url or an address, in document  *)
(* order; no error is shown for the card, and the page loop goes on to the *)
(* next page as after any page with cards.                                 *)
(***************************************************************************)
C19_CardFailureIsolated ==
    \A k \in 1..Len(responses) :
       (\E n \in 1..Len(responses[k].cards) : responses[k].cards[n].raises) =>
           LET before == AccumulatedFrom(responses, k - 1)
               added == ListingsOf(WithoutRaising(responses[k].cards))
           IN  /\ Len(all_listings) >= Len(before) + Len(added)
               /\ SubSeq(all_listings, 1, Len(before) + Len(added)) = before \o added
               /\ k < max_pages =>
                     \/ k < Len(responses)
                     \/ pc = "fetch" /\ page_num = k + 1
               /\ k = max_pages => LoopOver
               /\ Len(ErrorsShown) = IF EndedOnFailure THEN 1 ELSE 0

C19_Witness ==
    /\ pc = "done"
    /\ Len(responses) = 2
    /\ Len(responses[1].cards) = 3
    /\ responses[1].cards[1].url = Some("u1")
    /\ responses[1].cards[2].raises
    /\ responses[1].cards[3].url = Some("u2")
    /\ Len(all_listings) = 2
    /\ all_listings[1].url = Some("u1")
    /\ all_listings[2].url = Some("u2")
    /\ ErrorsShown = <<>>

\* a difference of datetimes truncated to whole days, the part of a day dropped
TruncatedDays(delta) ==
    CHOOSE q \in -(Today + MaxDays)..(Today + MaxDays) :
       IF delta >= 0
       THEN q * TicksPerDay <= delta /\ delta < (q + 1) * TicksPerDay
       ELSE (q - 1) * TicksPerDay < delta /\ delta <= q * TicksPerDay

\* a difference of datetimes rounded down to whole days
FlooredDays(delta) ==
    CHOOSE q \in -(Today + MaxDays)..(Today + MaxDays) :
       q * TicksPerDay <= delta /\ delta < (q + 1) * TicksPerDay

\* the enrichment of the listing found a date and no days on market
DateWithoutDays ==
    /\ idx = 1
    /\ merged_listing.listing_date # None
    /\ merged_listing.days_on_market = None

EnrichmentStarted == \E n \in 1..Len(calls) : calls[n].op = "progress_bar"

\* the total the progress reports are made against: len(listings) of line 928
ProgressTotal == ArgsOf("progress_bar", calls)

(***************************************************************************)
(* C21.  During enrichment progress is reported once after each listing of *)
(* the deduplicated list, a listing without a url included: after idx      *)
(* listings the completed counts reported are 1, 2, ..., idx, the total is *)
(* the number of deduplicated listings, and at return the last report is   *)
(* (total, total).                                                         *)
(***************************************************************************)
C21_ProgressAfterEachListing ==
    EnrichmentStarted =>
        /\ ProgressTotal = <<Len(listings)>>
        /\ Enriched = [n \in 1..idx |-> n]
        /\ pc = "done" => Enriched[Len(Enriched)] = Len(listings)

\* the dates that the date rules matching on the page parse to, in rule order
ParsedDates(page) == SelectSeq(page.date, LAMBDA d : d # None)

C23_DateForEveryDaysFromZero ==
    pc = "date_out" =>
        /\ (date_out = None) = (days_in = None \/ days_in[1] < 0)
        /\ date_out # None => date_out = Some(now - days_in[1] * TicksPerDay)

(***************************************************************************)
(* C24.  In every record of the list the search works on and returns,      *)
(* days_on_market is absent or a non-negative integer, whatever listing    *)
(* date the enricher produced, a date after now included.                  *)
(***************************************************************************)
C24_DaysOnMarketNotNegative ==
    \A n \in 1..Len(listings) :
       listings[n].days_on_market = None \/ listings[n].days_on_market[1] >= 0

\* the positions of the listings among the first i that have a url
UrlPositionsUpTo(ls, i) == SelectSeq(UrlPositions(ls, 1), LAMBDA n : n <= i)

(***************************************************************************)
(* C25 as stated.  After a page fetch that failed (403, another HTTP error *)
(* or any other exception) the listings of the earlier pages are           *)
(* deduplicated and, when details were asked for and a listing remains,    *)
(* enrichment runs: at return a detail fetch was issued for each           *)
(* deduplicated listing with a url.                                        *)
(***************************************************************************)
C25_DetailFetchesAfterFailedPage ==
    EndedOnFailure =>
        /\ SameListings(listings, Dedup(ParsedFrom(responses, Len(responses) - 1)))
        /\ (scrape_details /\ listings # <<>>) =>
              /\ EnrichmentStarted
              /\ pc = "done" => DetailFetches = UrlPositions(listings, 1)

(***************************************************************************)
(* C25 as amended.  After a page fetch that failed the failed fetch is the *)
(* last page fetch, the listings of the earlier pages are deduplicated     *)
(* and, when details were asked for and a listing remains, enrichment      *)
(* runs over all of them: each deduplicated listing with a url is enriched *)
(* in list order, by a detail fetch, or with no fetch from the 24-hour     *)
(* cache of scrape_listing_details when its url is there.  Without details *)
(* asked for, or without a listing, the search returns at once.            *)
(***************************************************************************)
C25_EnrichmentAfterFailedPage ==
    EndedOnFailure =>
        /\ SameListings(listings, Dedup(ParsedFrom(responses, Len(responses) - 1)))
        /\ PagesFetched = [n \in 1..Len(responses) |-> n]
        /\ (scrape_details /\ listings # <<>>) =>
              /\ EnrichmentStarted
              /\ DetailsAsked = UrlPositionsUpTo(listings, idx)
              /\ pc = "done" <=> idx = Len(listings)
              /\ \A n \in 1..Len(calls) :
                    calls[n].op = "cache_hit" =>
                        listings[calls[n].arg].url[1] \in DOMAIN details_cache
        /\ ~(scrape_details /\ listings # <<>>) =>
              /\ pc = "done"
              /\ DetailsAsked = <<>>
              /\ ~EnrichmentStarted

C25_Witness ==
    /\ EndedOnFailure
    /\ pc = "done"
    /\ LastResponse.status = "403"
    /\ PagesFetched = <<1, 2>>
    /\ Len(listings) = 2
    /\ listings[1].url = Some("u1")
    /\ listings[2].url = Some("u2")
    /\ DetailsAsked = <<1, 2>>
    /\ DetailFetches = <<1>>

\* the handlers whose scrape task was started and has not finished
InFlight == {i \in Searches : handlers[i].task = "running"}

\* the searches that were in flight together with the last one started
LastBurst ==
    LET started == {i \in Searches : handlers[i].burst # 0}
    IN  {i \in started : \A j \in started : handlers[j].burst <= handlers[i].burst}

\* those of them that completed successfully and found listings
Succeeded ==
    {i \in LastBurst : /\ handlers[i].pc = "finished"
                       /\ handlers[i].task = "returned"
                       /\ handlers[i].listings # <<>>}

(***************************************************************************)
(* C26.  The loading flag tracks the searches in flight, whatever the      *)
(* interleaving of the handlers: state.is_loading is true while the scrape *)
(* task of some handler has not finished, and false once every started     *)
(* handler has finished; and once they all have, the results stored are    *)
(* those of a handler that completed successfully, when one of the         *)
(* searches that overlapped did, not an empty table.                       *)
(***************************************************************************)
C26_LoadingTracksSearches ==
    /\ InFlight # {} => state.is_loading
    /\ Awaiting = {} => ~state.is_loading
    /\ (Awaiting = {} /\ Succeeded # {}) =>
          \E i \in Succeeded : state.results_df = DataFrame(handlers[i].listings)

(***************************************************************************)
(* C27.  A click of Search with an empty API key is a rejected no-op: the  *)
(* handler starts no scrape, now or later, and leaves results_df,          *)
(* is_loading, search_url, api_calls and api_credits as they were.  With a *)
(* non-empty key the handler has emptied results_df and set is_loading     *)
(* when the scrape starts; and a handler whose scrape raised ends with     *)
(* results_df empty and is_loading false.                                  *)
(***************************************************************************)
C27_RejectedOrCleared ==
    [][\A i \in Searches :
          /\ (handlers[i].pc = "idle" /\ handlers'[i].pc # "idle") =>
                IF state.scrapingbee_api_key = ""
                THEN /\ handlers'[i].pc = "rejected"
                     /\ handlers'[i].task = "none"
                     /\ state' = state
                     /\ api_calls' = api_calls
                     /\ api_credits' = api_credits
                ELSE /\ handlers'[i].pc = "awaiting"
                     /\ handlers'[i].task = "running"
                     /\ state'.results_df = DataFrame(<<>>)
                     /\ state'.is_loading
          /\ handlers[i].pc = "rejected" => handlers'[i] = handlers[i]
          /\ (handlers[i].task = "raised" /\ handlers[i].pc = "awaiting"
                 /\ handlers'[i].pc = "finished") =>
                /\ state'.results_df = DataFrame(<<>>)
                /\ ~state'.is_loading
      ]_vars

C27_Witness ==
    /\ handlers[1].pc = "finished"
    /\ handlers[1].task = "raised"
    /\ handlers[2].pc = "finished"
    /\ handlers[2].listings # <<>>
    /\ handlers[3].pc = "rejected"
    /\ state.scrapingbee_api_key = ""
    /\ state.max_price = 800000
    /\ state.search_url = build_search_url(900000)
    /\ state.results_df = DataFrame(handlers[2].listings)
    /\ ~state.is_loading
    /\ api_calls = 1

====
